---- MODULE Spec2Model ----
(***************************************************************************)
(* Model of the rtthost terminal viewer (src/mailman/src/app.rs and the    *)
(* run loop of src/mailman/src/main.rs).                                   *)
(*                                                                         *)
(* Text is a sequence of code points, a byte string a sequence of 0..255.  *)
(* Tab indices are 0-based as in the source; tabs[i + 1] is the source's   *)
(* self.tabs[i].  The channel name is display-only and is left out.        *)
(* App::new is modelled for a non-empty selection of distinct up channels. *)
(***************************************************************************)
EXTENDS Integers, Sequences, FiniteSets, TLC

\* ------------------------------------------------------------- bounds
\* Most bytes the transport delivers to one channel in a run.
MaxBytes == 2
\* Most bytes one transport read returns.
MaxChunk == 2
\* PageUp is accepted while the active scroll_offset is below this.
MaxScroll == 1
\* Most characters typed into one input line.
MaxInput == 1
\* Largest height of the message area the layout yields.
MaxAreaHeight == 4
\* Highest function key pressed.
MaxF == 3

\* ---------------------------------------------------------- constants
\* '\n', the separator of split (app.rs:240).
NL == 10
\* U+FFFD, what from_utf8_lossy puts for an invalid sequence (app.rs:232).
REPLACEMENT == 65533
\* The only channel poll_rtt reads (app.rs:258).
PolledChannel == 2
\* The two rows of border render takes off the message area (app.rs:136).
BorderRows == 2
\* usize arithmetic wraps modulo this when overflow checks are off.  The
\* real modulus (2^64) is out of the checker's integer range; every value of
\* the model is within MaxAreaHeight + MaxBytes + MaxScroll of 0 or of the
\* modulus, so the smaller power of two gives the same comparisons.
UsizeModulus == 2 ^ 30

\* Channel numbers the operator can pass with --up / --down.
ChanIds == {0, PolledChannel}
\* Bytes the target sends: '\n' and the two bytes of U+00E9, which are a
\* lead byte and a continuation byte and are invalid on their own.
RttBytes == {NL, 195, 169}
\* Characters the operator types (Key::Char(c), c # '\n').
TypedChars == {233}
\* Heights of chunks[2] the layout can yield (Constraint::Min(1)).
AreaHeights == 1..MaxAreaHeight
\* Key::F(n).
FKeys == 1..MaxF

VARIABLES
    tabs,            \* App::tabs : Seq(ChannelState)
    current_tab,     \* App::current_tab (0-based)
    pc,              \* position in run's loop: poll, render, event, exited, panicked
    poll_i,          \* index of the next channel of poll_rtt's for loop (0-based)
    height,          \* render's local `height` after the last render, -1 before
    drawn,           \* the message lines the last render handed to the List widget
    event,           \* the event the last handle_event consumed
    rtt_result,      \* what the transport returned to the last read request
    rtt_write,       \* what the last handle_event handed to rtt.write
    rtt_up           \* bytes the transport delivered so far, per channel number

vars == <<tabs, current_tab, pc, poll_i, height, drawn, event,
          rtt_result, rtt_write, rtt_up>>

\* ------------------------------------------------------------ helpers
Min(a, b) == IF a < b THEN a ELSE b

\* All sequences over S of length lo..hi.
SeqsOf(S, lo, hi) == UNION {[1..n -> S] : n \in lo..hi}

Last(s) == s[Len(s)]
Front(s) == SubSeq(s, 1, Len(s) - 1)

\* String::from_utf8_lossy, for one- and two-byte sequences: a valid
\* sequence decodes to its code point, every other byte to U+FFFD.
RECURSIVE from_utf8_lossy(_)
from_utf8_lossy(b) ==
    IF b = <<>> THEN <<>>
    ELSE IF b[1] < 128 THEN <<b[1]>> \o from_utf8_lossy(Tail(b))
    ELSE IF b[1] \in 194..223 /\ Len(b) >= 2 /\ b[2] \in 128..191
         THEN <<(b[1] - 192) * 64 + (b[2] - 128)>>
              \o from_utf8_lossy(SubSeq(b, 3, Len(b)))
    ELSE <<REPLACEMENT>> \o from_utf8_lossy(Tail(b))

\* String::as_bytes: the UTF-8 encoding, for code points below U+0800.
RECURSIVE as_bytes(_)
as_bytes(s) ==
    IF s = <<>> THEN <<>>
    ELSE (IF s[1] < 128 THEN <<s[1]>>
          ELSE <<192 + (s[1] \div 64), 128 + (s[1] % 64)>>)
         \o as_bytes(Tail(s))

\* str::split('\n'): the pieces between separators; never empty.
RECURSIVE split(_)
split(s) ==
    IF \E i \in 1..Len(s) : s[i] = NL
    THEN LET i == CHOOSE k \in 1..Len(s) :
                      s[k] = NL /\ \A j \in 1..(k - 1) : s[j] # NL
         IN <<SubSeq(s, 1, i - 1)>> \o split(SubSeq(s, i + 1, Len(s)))
    ELSE <<s>>

\* --------------------------------------------------------------- state
ChannelState_new(number, has_down_channel) ==
    [number |-> number, has_down_channel |-> has_down_channel,
     messages |-> <<>>, input |-> <<>>, scroll_offset |-> 0]

App_new(up, down) ==
    [i \in 1..Len(up) |-> ChannelState_new(up[i], up[i] \in down)]

\* The --up selections: non-empty lists of distinct channel numbers.
UpSelections ==
    {u \in SeqsOf(ChanIds, 1, Cardinality(ChanIds)) :
        \A i, j \in 1..Len(u) : i # j => u[i] # u[j]}

NoEvent == [key |-> "none", arg |-> 0]
NoWrite == [result |-> "none", channel |-> 0, bytes |-> <<>>]

Init ==
    /\ \E up \in UpSelections, down \in SUBSET ChanIds : tabs = App_new(up, down)
    /\ current_tab = 0
    /\ pc = "poll"
    /\ poll_i = 0
    /\ height = -1
    /\ drawn = <<>>
    /\ event = NoEvent
    /\ rtt_result = "none"
    /\ rtt_write = NoWrite
    /\ rtt_up = [c \in ChanIds |-> <<>>]

\* ------------------------------------------------------- read_rtt_channel
\* Index (1-based) of the first tab whose number is channel (iter_mut().find).
find_tab(ts, channel) ==
    CHOOSE i \in 1..Len(ts) :
        ts[i].number = channel /\ \A j \in 1..(i - 1) : ts[j].number # channel

\* read_rtt_channel from the decoding on (lines 231-251): data is the
\* non-empty rtt_buffer[..count].
append_chunk(ts, cur, channel, data) ==
    LET decoded   == from_utf8_lossy(data)
        msgs      == ts[cur + 1].messages
        popped    == msgs # <<>>
        incomming == IF popped THEN Last(msgs) \o decoded ELSE decoded
        ts1       == IF popped
                     THEN [ts EXCEPT ![cur + 1].messages = Front(msgs)]
                     ELSE ts
        pieces    == split(incomming)
        ts2       == [ts1 EXCEPT ![find_tab(ts1, channel)].messages =
                                      @ \o pieces]
    IN IF ts2[cur + 1].scroll_offset # 0
       THEN [ts2 EXCEPT ![cur + 1].scroll_offset = @ + Len(pieces) - 1]
       ELSE ts2

\* Mutant: the count == 0 return is missing.
read_rtt_channel_no_empty_return(ts, cur, channel, res) ==
    IF res.kind = "err" THEN ts
    ELSE append_chunk(ts, cur, channel, res.data)

\* Mutant: a read error is put into the active tab's log as a line.
read_rtt_channel_logs_error(ts, cur, channel, res) ==
    IF res.kind = "err"
    THEN [ts EXCEPT ![cur + 1].messages = Append(@, <<REPLACEMENT>>)]
    ELSE IF Len(res.data) = 0 THEN ts
    ELSE append_chunk(ts, cur, channel, res.data)

\* The tabs after read_rtt_channel(channel) when rtt.read returned res:
\* [kind |-> "err"], or [kind |-> "ok", data |-> the count bytes read].
read_rtt_channel(ts, cur, channel, res) ==
    IF res.kind = "err" THEN ts
    ELSE IF Len(res.data) = 0 THEN ts
    ELSE append_chunk(ts, cur, channel, res.data)

\* poll_rtt's test for reading a channel.
poll_filter(channel) == channel = PolledChannel

\* What rtt.read can return for a channel: an error, or up to MaxChunk bytes.
ReadResults(channel) ==
    {[kind |-> "err", data |-> <<>>]}
    \cup {[kind |-> "ok", data |-> d] :
            d \in {x \in SeqsOf(RttBytes, 0, MaxChunk) :
                     Len(rtt_up[channel]) + Len(x) <= MaxBytes}}

result_kind(res) ==
    IF res.kind = "err" THEN "err"
    ELSE IF res.data = <<>> THEN "zero" ELSE "data"

\* Mutant: run goes from poll_rtt straight to handle_event.
PollAdvance_skips_render ==
    /\ poll_i' = IF poll_i + 1 < Len(tabs) THEN poll_i + 1 ELSE 0
    /\ pc' = IF poll_i + 1 < Len(tabs) THEN "poll" ELSE "event"

\* The loop position after one iteration of poll_rtt's for loop.
PollAdvance ==
    /\ poll_i' = IF poll_i + 1 < Len(tabs) THEN poll_i + 1 ELSE 0
    /\ pc' = IF poll_i + 1 < Len(tabs) THEN "poll" ELSE "render"

\* One iteration of poll_rtt's loop that calls read_rtt_channel.
PollRead ==
    /\ pc = "poll"
    /\ LET channel == tabs[poll_i + 1].number IN
       /\ poll_filter(channel)
       /\ \E res \in ReadResults(channel) :
            /\ tabs' = read_rtt_channel(tabs, current_tab, channel, res)
            /\ rtt_result' = result_kind(res)
            /\ rtt_up' = [rtt_up EXCEPT ![channel] = @ \o res.data]
    /\ PollAdvance
    /\ event' = NoEvent
    /\ rtt_write' = NoWrite
    /\ UNCHANGED <<current_tab, height, drawn>>

\* One iteration of poll_rtt's loop that skips the channel.
PollSkip ==
    /\ pc = "poll"
    /\ ~poll_filter(tabs[poll_i + 1].number)
    /\ PollAdvance
    /\ rtt_result' = "none"
    /\ event' = NoEvent
    /\ rtt_write' = NoWrite
    /\ UNCHANGED <<tabs, current_tab, height, drawn, rtt_up>>

\* ----------------------------------------------------------------- render
\* usize a + b and a - b as the machine computes them with checks off.
usize_add(a, b) == (a + b) % UsizeModulus
usize_sub(a, b) == (a - b + UsizeModulus) % UsizeModulus

\* render's `height`: chunks[2].height as usize - 2.
render_height(area) == usize_sub(area, BorderRows)

\* Whether render's arithmetic overflows for this area and scroll_offset
\* (the subtraction of line 136, the additions of lines 140 and 158).
render_overflows(area, s) ==
    \/ area < BorderRows
    \/ render_height(area) + s >= UsizeModulus

\* Mutant: the window ignores scroll_offset.
render_window_ignores_scroll(msgs, s, h) ==
    LET n    == Len(msgs)
        skip == n - Min(h, n)
        len  == Min(h, n - skip)
    IN [k \in 1..len |-> [index |-> skip + k - 1, text |-> msgs[skip + k]]]

\* The message lines render draws: enumerate, format "{i}: {m}" (a line is
\* modelled as its index and its text), skip, take.
render_window(msgs, s, h) ==
    LET n    == Len(msgs)
        skip == n - Min(usize_add(h, s), n)
        len  == Min(h, n - skip)
    IN [k \in 1..len |-> [index |-> skip + k - 1, text |-> msgs[skip + k]]]

\* The scroll_offset render leaves: the reconciliation after the draw.
render_scroll(n, s, h) ==
    IF n < usize_add(h, s) THEN n - Min(h, n) ELSE s

\* render on a build with overflow checks (debug): an overflow panics.
RenderPanic ==
    /\ pc = "render"
    /\ \E area \in AreaHeights :
         render_overflows(area, tabs[current_tab + 1].scroll_offset)
    /\ pc' = "panicked"
    /\ rtt_result' = "none"
    /\ UNCHANGED <<tabs, current_tab, poll_i, height, drawn, event, rtt_write,
                   rtt_up>>

\* render running to its end: without overflow, or on a build without
\* overflow checks (release), where the arithmetic wraps.
Render ==
    /\ pc = "render"
    /\ \E area \in AreaHeights :
         LET t == tabs[current_tab + 1]
             h == render_height(area)
         IN /\ height' = h
            /\ drawn' = render_window(t.messages, t.scroll_offset, h)
            /\ tabs' = [tabs EXCEPT ![current_tab + 1].scroll_offset =
                          render_scroll(Len(t.messages), t.scroll_offset, h)]
    /\ pc' = "event"
    /\ rtt_result' = "none"
    /\ UNCHANGED <<current_tab, poll_i, event, rtt_write, rtt_up>>

\* ----------------------------------------------------------- handle_event
\* Mutant: an index past the end selects the last tab.
select_tab_clamped(cur, n, len) ==
    LET i == n - 1 IN IF i < len THEN i ELSE len - 1

\* Mutant: an index past the end wraps around.
select_tab_wraps(cur, n, len) == (n - 1) % len

\* Key::F(n): the tab selected.
select_tab(cur, n, len) ==
    LET i == n - 1 IN IF i < len THEN i ELSE cur

\* Key::Char(c), c # '\n'.
type_char(ts, cur, c) == [ts EXCEPT ![cur + 1].input = Append(@, c)]

\* Key::Backspace: String::pop.
backspace(ts, cur) ==
    [ts EXCEPT ![cur + 1].input = IF @ = <<>> THEN @ ELSE Front(@)]

\* Key::PageUp and Key::PageDown.
scroll_up(ts, cur) == [ts EXCEPT ![cur + 1].scroll_offset = @ + 1]
scroll_down(ts, cur) ==
    [ts EXCEPT ![cur + 1].scroll_offset = IF @ > 0 THEN @ - 1 ELSE @]

\* push_rtt: the bytes handed to rtt.write, and the tabs after a write that
\* returned Ok.
push_rtt_bytes(ts, cur) == as_bytes(ts[cur + 1].input)
push_rtt_done(ts, cur) == [ts EXCEPT ![cur + 1].input = <<>>]

\* What every handle_event step does besides its own effect.
Consumed(key, arg) ==
    /\ pc = "event"
    /\ event' = [key |-> key, arg |-> arg]
    /\ height' = -1
    /\ drawn' = <<>>
    /\ UNCHANGED <<poll_i, rtt_result, rtt_up>>

\* Mutant: no tick is delivered, handle_event waits for a key.
EvTick_never == FALSE

\* Event::Tick.
EvTick ==
    /\ Consumed("Tick", 0)
    /\ pc' = "poll"
    /\ rtt_write' = NoWrite
    /\ UNCHANGED <<tabs, current_tab>>

\* Key::Ctrl('c'): handle_event returns true and run returns 0.
EvQuit ==
    /\ Consumed("Ctrl-c", 0)
    /\ pc' = "exited"
    /\ rtt_write' = NoWrite
    /\ UNCHANGED <<tabs, current_tab>>

EvSelect ==
    \E n \in FKeys :
       /\ Consumed("F", n)
       /\ current_tab' = select_tab(current_tab, n, Len(tabs))
       /\ pc' = "poll"
       /\ rtt_write' = NoWrite
       /\ UNCHANGED tabs

\* Key::Char('\n') on a tab without a down channel: push_rtt does nothing.
EvSubmitReadOnly ==
    /\ Consumed("Enter", 0)
    /\ ~tabs[current_tab + 1].has_down_channel
    /\ pc' = "poll"
    /\ rtt_write' = NoWrite
    /\ UNCHANGED <<tabs, current_tab>>

\* Key::Char('\n'), rtt.write returns Ok.
EvSubmitOk ==
    /\ Consumed("Enter", 0)
    /\ tabs[current_tab + 1].has_down_channel
    /\ rtt_write' = [result |-> "ok",
                     channel |-> tabs[current_tab + 1].number,
                     bytes |-> push_rtt_bytes(tabs, current_tab)]
    /\ tabs' = push_rtt_done(tabs, current_tab)
    /\ pc' = "poll"
    /\ UNCHANGED current_tab

\* Key::Char('\n'), rtt.write returns Err: unwrap panics.
EvSubmitErr ==
    /\ Consumed("Enter", 0)
    /\ tabs[current_tab + 1].has_down_channel
    /\ rtt_write' = [result |-> "err",
                     channel |-> tabs[current_tab + 1].number,
                     bytes |-> push_rtt_bytes(tabs, current_tab)]
    /\ pc' = "panicked"
    /\ UNCHANGED <<tabs, current_tab>>

EvChar ==
    \E c \in TypedChars :
       /\ Consumed("Char", c)
       /\ Len(tabs[current_tab + 1].input) < MaxInput
       /\ tabs' = type_char(tabs, current_tab, c)
       /\ pc' = "poll"
       /\ rtt_write' = NoWrite
       /\ UNCHANGED current_tab

EvBackspace ==
    /\ Consumed("Backspace", 0)
    /\ tabs' = backspace(tabs, current_tab)
    /\ pc' = "poll"
    /\ rtt_write' = NoWrite
    /\ UNCHANGED current_tab

EvPageUp ==
    /\ Consumed("PageUp", 0)
    /\ tabs[current_tab + 1].scroll_offset < MaxScroll
    /\ tabs' = scroll_up(tabs, current_tab)
    /\ pc' = "poll"
    /\ rtt_write' = NoWrite
    /\ UNCHANGED current_tab

EvPageDown ==
    /\ Consumed("PageDown", 0)
    /\ tabs' = scroll_down(tabs, current_tab)
    /\ pc' = "poll"
    /\ rtt_write' = NoWrite
    /\ UNCHANGED current_tab

\* Any other key.
EvOther ==
    /\ Consumed("Other", 0)
    /\ pc' = "poll"
    /\ rtt_write' = NoWrite
    /\ UNCHANGED <<tabs, current_tab>>

\* -------------------------------------------------------------- run loop
Next ==
    \/ PollRead
    \/ PollSkip
    \/ RenderPanic
    \/ Render
    \/ EvTick
    \/ EvQuit
    \/ EvSelect
    \/ EvSubmitReadOnly
    \/ EvSubmitOk
    \/ EvSubmitErr
    \/ EvChar
    \/ EvBackspace
    \/ EvPageUp
    \/ EvPageDown
    \/ EvOther

Spec == Init /\ [][Next]_vars

\* The run loop with its scheduling: poll_rtt and render return (the
\* transport read does not block), and events.next() returns at the latest
\* with the next tick.
FairSpec ==
    /\ Spec
    /\ WF_vars(PollRead \/ PollSkip)
    /\ WF_vars(Render \/ RenderPanic)
    /\ WF_vars(EvTick)

\* ------------------------------------------------------------------ claims
Running == pc \in {"poll", "render", "event"}

\* Number of line terminators among the bytes b.
RECURSIVE terminators(_)
terminators(b) ==
    IF b = <<>> THEN 0
    ELSE (IF b[1] = NL THEN 1 ELSE 0) + terminators(Tail(b))

\* The log of a channel that received b as one chunk, starting empty.
single_chunk_log(b) ==
    IF b = <<>> THEN <<>>
    ELSE read_rtt_channel(App_new(<<PolledChannel>>, {}), 0, PolledChannel,
                          [kind |-> "ok", data |-> b])[1].messages

\* C1: reassembly is chunk-boundary-invariant: whatever the chunks and
\* whatever the operator does between the reads, a channel's log is the log
\* that the concatenation of its chunks, delivered as one chunk, produces.
C1_ChunkBoundaryInvariant ==
    \A i \in 1..Len(tabs) :
        tabs[i].messages = single_chunk_log(rtt_up[tabs[i].number])

\* C2: every terminator of a channel's stream makes exactly one boundary of
\* its log: with t terminators the log has t entries if the stream ends with
\* a terminator and t + 1 otherwise, and no entry contains a terminator.
C2_OneBoundaryPerTerminator ==
    \A i \in 1..Len(tabs) :
        LET b == rtt_up[tabs[i].number]
            t == terminators(b)
        IN /\ b # <<>> =>
                Len(tabs[i].messages) = IF Last(b) = NL THEN t ELSE t + 1
           /\ \A k \in 1..Len(tabs[i].messages) :
                \A j \in 1..Len(tabs[i].messages[k]) :
                    tabs[i].messages[k][j] # NL

\* C3: a read of 0 bytes changes no tab's log, scroll_offset or input, nor
\* the active tab.
C3_EmptyReadNoOp ==
    [][(pc = "poll" /\ rtt_result' = "zero")
         => (tabs' = tabs /\ current_tab' = current_tab)]_vars

\* An empty read just happened while every tab has a log, the active tab is
\* scrolled up and has typed input.
C3_Witness ==
    /\ rtt_result = "zero"
    /\ Len(tabs) = 2
    /\ \E i \in 1..Len(tabs) : tabs[i].messages # <<>>
    /\ tabs[current_tab + 1].scroll_offset > 0
    /\ tabs[current_tab + 1].input # <<>>

\* C4: scroll_offset is never negative, and right after render's
\* reconciliation scroll_offset + height <= len(log) when len(log) >= height,
\* and scroll_offset = 0 when len(log) < height.
C4_ScrollInvariant ==
    /\ \A i \in 1..Len(tabs) : tabs[i].scroll_offset >= 0
    /\ pc = "event" =>
         LET n == Len(tabs[current_tab + 1].messages)
             s == tabs[current_tab + 1].scroll_offset
         IN /\ n >= height => s + height <= n
            /\ n < height => s = 0

\* C5: a function key whose index is len(tabs) or more leaves the active tab
\* and every channel's state as they were, and the loop goes on.
C5_SelectOutOfRangeNoOp ==
    [][(pc = "event" /\ event'.key = "F" /\ event'.arg - 1 >= Len(tabs))
         => (tabs' = tabs /\ current_tab' = current_tab /\ pc' = "poll")]_vars

\* An out-of-range function key was just consumed with the second of two
\* tabs active.
C5_Witness ==
    /\ event.key = "F"
    /\ event.arg - 1 >= Len(tabs)
    /\ Len(tabs) = 2
    /\ current_tab = 1
    /\ pc = "poll"

\* C6: when the transport write of a submit fails, the input buffer keeps
\* its contents and the loop stays Running.
C6_WriteFailureKeepsRunning ==
    [][(pc = "event" /\ rtt_write'.result = "err")
         => (tabs'[current_tab + 1].input = tabs[current_tab + 1].input
             /\ pc' = "poll")]_vars

\* C7: submit on a writable active channel hands the input buffer followed
\* by one terminator to the transport for that channel's number and leaves
\* the input buffer empty; on a read-only channel it writes and changes
\* nothing.
C7_SubmitSendsLineAndClears ==
    [][(pc = "event" /\ event'.key = "Enter")
         => IF tabs[current_tab + 1].has_down_channel
            THEN /\ rtt_write'.result # "none"
                 /\ rtt_write'.channel = tabs[current_tab + 1].number
                 /\ rtt_write'.bytes =
                        as_bytes(tabs[current_tab + 1].input) \o <<NL>>
                 /\ tabs'[current_tab + 1].input = <<>>
            ELSE /\ rtt_write' = NoWrite
                 /\ tabs' = tabs]_vars

\* C8: a failed transport read changes no tab and not the active tab and
\* leaves the loop Running; every poll starts again at the first channel and
\* requests a read for every channel poll_rtt reads, so the channel is read
\* again in the next cycle.
C8_ReadFailureNonFatal ==
    [][/\ (pc = "poll" /\ rtt_result' = "err")
            => (tabs' = tabs /\ current_tab' = current_tab
                /\ pc' \in {"poll", "render"})
       /\ (pc = "event" /\ pc' = "poll") => poll_i' = 0
       /\ (pc = "poll" /\ poll_filter(tabs[poll_i + 1].number))
            => rtt_result' # "none"]_vars

\* A read just failed on a channel that has a log, with the active tab
\* scrolled up.
C8_Witness ==
    /\ rtt_result = "err"
    /\ Running
    /\ \E i \in 1..Len(tabs) : tabs[i].messages # <<>>
    /\ tabs[current_tab + 1].scroll_offset > 0

\* C9: the loop leaves Running only on the quit key: handle_event makes run
\* return exactly when it consumed Ctrl-C, and after every other event a
\* further cycle starts.
C9_ExitOnlyOnQuit ==
    [][pc = "event"
         => /\ pc' = "exited" <=> event'.key = "Ctrl-c"
            /\ event'.key # "Ctrl-c" => pc' = "poll"]_vars

\* C10: a character or backspace on an active channel without a down
\* channel leaves its input buffer as it was, and backspace on an empty
\* input buffer changes nothing.
C10_ReadOnlyInputUnchanged ==
    [][/\ (pc = "event" /\ event'.key \in {"Char", "Backspace"}
           /\ ~tabs[current_tab + 1].has_down_channel)
            => tabs'[current_tab + 1].input = tabs[current_tab + 1].input
       /\ (pc = "event" /\ event'.key = "Backspace"
           /\ tabs[current_tab + 1].input = <<>>)
            => (tabs' = tabs /\ pc' = "poll")]_vars

\* The active tab.
ActiveTab == tabs[current_tab + 1]

\* The last completed line of the stream b, which ends with a terminator.
last_completed(b) ==
    LET pieces == split(from_utf8_lossy(b)) IN pieces[Len(pieces) - 1]

\* The bytes the read of this step appended to the stream of channel c.
chunk_read(c) == SubSeq(rtt_up'[c], Len(rtt_up[c]) + 1, Len(rtt_up'[c]))

\* C11: pinned to the bottom, the view shows the newest completed line: when
\* the stream of the displayed read-only channel ends with a terminator and
\* scroll_offset is 0, a render with height 1 draws that line and nothing
\* else.
C11_PinnedShowsNewestLine ==
    [][(/\ pc = "render"
        /\ pc' = "event"
        /\ height' = 1
        /\ ~ActiveTab.has_down_channel
        /\ ActiveTab.scroll_offset = 0
        /\ rtt_up[ActiveTab.number] # <<>>
        /\ Last(rtt_up[ActiveTab.number]) = NL)
         => (/\ Len(drawn') = 1
             /\ drawn'[1].text = last_completed(rtt_up[ActiveTab.number]))]_vars

\* C12: in every poll each tab, whatever its channel number, gets one
\* transport read request.
C12_EveryChannelPolled ==
    [][pc = "poll" => (rtt_result' # "none" /\ pc' \in {"poll", "render"})]_vars

\* C13: a non-empty chunk appended to a channel whose scroll_offset is not 0
\* raises that channel's scroll_offset by the number of terminators in the
\* chunk; a scroll_offset of 0 stays 0.
C13_ScrollFollowsAppend ==
    [][(pc = "poll" /\ rtt_result' = "data")
         => LET c == tabs[poll_i + 1].number
                i == find_tab(tabs, c)
            IN tabs'[i].scroll_offset =
                  IF tabs[i].scroll_offset # 0
                  THEN tabs[i].scroll_offset + terminators(chunk_read(c))
                  ELSE 0]_vars

\* C15: in every reachable state every channel has scroll_offset <= len(log).
C15_ScrollWithinLog ==
    \A i \in 1..Len(tabs) : tabs[i].scroll_offset <= Len(tabs[i].messages)

\* C19: a read that returns a non-empty chunk for channel X changes only the
\* tab whose number is X.
C19_ReadTouchesOnlyItsChannel ==
    [][(pc = "poll" /\ rtt_result' = "data")
         => \A i \in 1..Len(tabs) :
                i # find_tab(tabs, tabs[poll_i + 1].number)
                    => tabs'[i] = tabs[i]]_vars

\* C20: render never faults on unsigned arithmetic: for every reachable
\* log length and scroll_offset and every height of the message area, render
\* runs to its end and its height is the area's height less the border rows,
\* not a wrapped value.
C20_RenderArithmeticSafe ==
    [][pc = "render"
         => (/\ pc' = "event"
             /\ height' + BorderRows \in AreaHeights
             /\ tabs'[current_tab + 1].scroll_offset >= 0)]_vars

\* Whether the lines d are the slice of msgs of length len whose last line
\* has index bottom (0-based), in log order.
is_slice(d, msgs, len, bottom) ==
    /\ Len(d) = len
    /\ \A k \in 1..len :
         /\ d[k].index = bottom - len + k
         /\ d[k].index \in 0..(Len(msgs) - 1)
         /\ d[k].text = msgs[d[k].index + 1]

\* A render that ran with an available height: the message area's height
\* less its border rows.
RenderedWithHeight ==
    /\ pc = "render"
    /\ pc' = "event"
    /\ height' + BorderRows \in AreaHeights

\* C14 as claimed: the lines drawn are the slice of length min(h, n) whose
\* last line has index n - 1 - s, clamped to be non-negative.
C14_ViewportWindowClaimed ==
    [][RenderedWithHeight
         => LET n == Len(ActiveTab.messages)
                s == ActiveTab.scroll_offset
                b == IF n - 1 - s < 0 THEN 0 ELSE n - 1 - s
            IN is_slice(drawn', ActiveTab.messages, Min(height', n), b)]_vars

\* C14, amended: the lines drawn are the slice of the log of length
\* min(h, n), in log order, whose last line is min(s, n - min(h, n)) lines
\* from the end: the offset is clamped so that the window stays full.
C14_ViewportWindow ==
    [][RenderedWithHeight
         => LET n == Len(ActiveTab.messages)
                s == ActiveTab.scroll_offset
                l == Min(height', n)
            IN is_slice(drawn', ActiveTab.messages, l,
                        n - 1 - Min(s, n - l))]_vars

\* A render has just drawn a scrolled window: one line, the one before the
\* newest, for a scroll_offset of 1.
C14_Witness ==
    /\ pc = "event"
    /\ height = 1
    /\ ActiveTab.scroll_offset = 1
    /\ Len(drawn) = 1
    /\ drawn[1].index = Len(ActiveTab.messages) - 2

\* C16: current_tab is always a valid index into tabs, it changes only by a
\* function key whose index is in range, to that index, and tabs keeps its
\* length and its channel numbers.
C16_ActiveIndexValid ==
    [][/\ current_tab \in 0..(Len(tabs) - 1)
       /\ current_tab' \in 0..(Len(tabs') - 1)
       /\ current_tab' # current_tab
            => (/\ pc = "event"
                /\ event'.key = "F"
                /\ event'.arg - 1 < Len(tabs)
                /\ current_tab' = event'.arg - 1)
       /\ Len(tabs') = Len(tabs)
       /\ \A i \in 1..Len(tabs) : tabs'[i].number = tabs[i].number]_vars

\* A function key has just made the second tab active.
C16_Witness ==
    /\ event.key = "F"
    /\ event.arg = 2
    /\ current_tab = 1
    /\ pc = "poll"

\* C17: the loop runs poll, render, handle_event in this order: render
\* starts only when poll_rtt has gone through all tabs, handle_event only
\* after render, the next poll only after handle_event, which consumes one
\* event; the loop exits only by handle_event consuming Ctrl-C, after that
\* cycle's poll and render, changing nothing, and nothing happens after the
\* exit.
C17_CycleOrder ==
    [][/\ pc' = "render" => (pc = "poll" /\ poll_i + 1 = Len(tabs))
       /\ pc' = "event" => pc = "render"
       /\ pc' = "poll"
            => \/ pc = "event" /\ poll_i' = 0
               \/ pc = "poll" /\ poll_i' = poll_i + 1
       /\ pc = "event" => (event' # NoEvent /\ pc' # "event")
       /\ pc # "event" => event' \in {event, NoEvent}
       /\ pc' = "exited"
            => (/\ pc = "event"
                /\ event'.key = "Ctrl-c"
                /\ tabs' = tabs
                /\ current_tab' = current_tab
                /\ rtt_write' = NoWrite)
       /\ pc # "exited"]_vars

\* The loop has exited on Ctrl-C after data was read and drawn.
C17_Witness ==
    /\ pc = "exited"
    /\ event.key = "Ctrl-c"
    /\ \E i \in 1..Len(tabs) : tabs[i].messages # <<>>

\* C18: with the tick delivered, as long as the loop is not stopped poll_rtt
\* completes infinitely often and render completes infinitely often,
\* whatever the operator and the transport do; and a tick changes no
\* application state.
C18_PollRenderLive ==
    /\ []<>(pc = "render" \/ ~Running)
    /\ []<>(pc = "event" \/ ~Running)
    /\ [][(pc = "event" /\ event'.key = "Tick")
            => (/\ tabs' = tabs
                /\ current_tab' = current_tab
                /\ rtt_write' = NoWrite
                /\ pc' = "poll")]_vars

\* A tick was consumed after data was read, and the loop is at its next poll.
C18_Witness ==
    /\ event.key = "Tick"
    /\ pc = "poll"
    /\ \E c \in ChanIds : rtt_up[c] # <<>>
====
